---- MODULE Spec2Model ----
(***************************************************************************)
(* Model of kedro/framework/cli/pipeline.py: the recursive merge-copier    *)
(* _sync_dirs, its two callers _copy_pipeline_tests/_copy_pipeline_configs *)
(* and the commands create_pipeline and delete_pipeline.                   *)
(*                                                                         *)
(* The filesystem is a function from the paths that exist (sequences of    *)
(* names) to nodes; the root <<>> is an implicit directory.                *)
(***************************************************************************)
EXTENDS Naturals, Sequences, FiniteSets, TLC

VARIABLES fs, fs0, stack, pc, exc, argv, loc, last, copied, attempted, failed, ended

vars == <<fs, fs0, stack, pc, exc, argv, loc, last, copied, attempted, failed, ended>>

(* ------------------------------ bounds --------------------------------- *)

\* entries (files and directories) of the source tree of a _sync_dirs call
MaxSrcEntries == 4

\* entries of the pre-existing target tree of a _sync_dirs call
MaxTgtEntries == 2

\* entries of each generated scratch tree (tests/, config/) of create_pipeline
MaxScratchEntries == 1

\* entries of the pre-existing tests target and environment directory
MaxProjEntries == 1

Names == {"a", "b.py"}

(* ---------------------------- filesystem ------------------------------- *)

DirNode == [kind |-> "dir", data |-> <<>>]

FileNode(d) == [kind |-> "file", data |-> d]

Exists(f, p) == p \in DOMAIN f

\* Path.is_dir / Path.is_file
IsDir(f, p) == p = <<>> \/ (p \in DOMAIN f /\ f[p].kind = "dir")

IsFile(f, p) == p \in DOMAIN f /\ f[p].kind = "file"

KindOf(f, p) == IF p = <<>> THEN "dir" ELSE IF p \in DOMAIN f THEN f[p].kind ELSE "none"

Name(p) == p[Len(p)]

Prefix(p, k) == SubSeq(p, 1, k)

IsPrefix(p, q) == Len(p) <= Len(q) /\ Prefix(q, Len(p)) = p

\* Path.iterdir: the immediate children
Iterdir(f, p) == {q \in DOMAIN f : Len(q) = Len(p) + 1 /\ IsPrefix(p, q)}

\* everything below p, p excluded
Below(f, p) == {q \in DOMAIN f : Len(q) > Len(p) /\ IsPrefix(p, q)}

Restrict(f, S) == [q \in S |-> f[q]]

\* Path.mkdir(exist_ok=True, parents=True) raises iff the path or one of its
\* ancestors exists and is not a directory
MkdirOk(f, p) == \A k \in 1..Len(p) : KindOf(f, Prefix(p, k)) \in {"none", "dir"}

\* the missing ancestors up to length k are created (k = Len(p): the whole call)
MkdirUpTo(f, p, k) ==
    LET new == {Prefix(p, j) : j \in 1..k} \ DOMAIN f
    IN  f @@ [q \in new |-> DirNode]

Mkdir(f, p) == MkdirUpTo(f, p, Len(p))

\* shutil.copyfile: the destination becomes a file holding the source's bytes
CopyFile(f, src, dst) == [q \in DOMAIN f \cup {dst} |-> IF q = dst THEN FileNode(f[src].data) ELSE f[q]]

\* a copy that failed after the destination was opened for writing
PartialFile(f, dst) == [q \in DOMAIN f \cup {dst} |-> IF q = dst THEN FileNode(<<"partial">>) ELSE f[q]]

\* shutil.rmtree / Path.unlink
Remove(f, p) == Restrict(f, {q \in DOMAIN f : ~IsPrefix(p, q)})

(* ------------------------- trees drawn as inputs ----------------------- *)

EmptyTree == [p \in {} |-> "dir"]

\* a relative tree maps relative paths (closed under parents) to "dir"/"file"
NewLeaves(names, t) ==
    {Append(par, n) : par \in {<<>>} \cup {p \in DOMAIN t : t[p] = "dir"}, n \in names} \ DOMAIN t

Grow(names, t) ==
    {t} \cup {t @@ [q \in {l} |-> k] : l \in NewLeaves(names, t), k \in {"dir", "file"}}

\* the trees of at most n entries named from names
RECURSIVE Trees(_, _)
Trees(names, n) ==
    IF n = 0 THEN {EmptyTree} ELSE UNION {Grow(names, t) : t \in Trees(names, n - 1)}

Rel(root, q) == SubSeq(q, Len(root) + 1, Len(q))

\* the tree t placed at root, root a directory, file contents tagged
Graft(root, t, tag) ==
    [q \in {root} \cup {root \o p : p \in DOMAIN t} |->
        IF q = root THEN DirNode
        ELSE IF t[Rel(root, q)] = "dir" THEN DirNode
        ELSE FileNode(<<tag, Rel(root, q)>>)]

Absent == [p \in {} |-> DirNode]

SingleFile(root, tag) == [q \in {root} |-> FileNode(<<tag, <<>> >>)]

(* ------------------------------ _sync_dirs ----------------------------- *)

SrcRoot == <<"src", "a">>

TgtRoot == <<"tgt">>

top == stack[Len(stack)]

\* entry of _sync_dirs listing only the files of the source: no recursion
FrameFilesOnly(source, target, overwrite) ==
    LET existing == IF IsDir(fs, target) THEN Iterdir(fs, target) ELSE {}
    IN  [source |-> source, target |-> target, overwrite |-> overwrite,
         existing_files |-> {Name(q) : q \in {e \in existing : IsFile(fs, e)}},
         existing_folders |-> {Name(q) : q \in {e \in existing : IsDir(fs, e)}},
         content |-> IF IsDir(fs, source) THEN {q \in Iterdir(fs, source) : IsFile(fs, q)}
                     ELSE IF IsFile(fs, source) THEN {source}
                     ELSE {}]

\* entry of _sync_dirs: the snapshot of the target and the list of items
Frame(source, target, overwrite) ==
    LET existing == IF IsDir(fs, target) THEN Iterdir(fs, target) ELSE {}
    IN  [source |-> source, target |-> target, overwrite |-> overwrite,
         existing_files |-> {Name(q) : q \in {e \in existing : IsFile(fs, e)}},
         existing_folders |-> {Name(q) : q \in {e \in existing : IsDir(fs, e)}},
         content |-> IF IsDir(fs, source) THEN Iterdir(fs, source)
                     ELSE IF IsFile(fs, source) THEN {source}
                     ELSE {}]

\* rule #1 with the overwrite gate lost: a file collision never skips
SkipRuleNoFileCheck(fr, sp) ==
    IsFile(fs, sp) /\ Name(sp) \in fr.existing_folders

\* rule #1 grouped as: not overwrite and (A or (is_file and B))
SkipRuleRegrouped(fr, sp) ==
    ~fr.overwrite /\ (Name(sp) \in fr.existing_files \/ (IsFile(fs, sp) /\ Name(sp) \in fr.existing_folders))

\* rule #1 with the is_file test lost: a directory collision skips too
SkipRuleAnyKind(fr, sp) ==
    \/ ~fr.overwrite /\ Name(sp) \in fr.existing_files
    \/ Name(sp) \in fr.existing_folders

\* rule #1 as Python groups it: (not overwrite and A) or (is_file and B)
SkipRule(fr, sp) ==
    \/ ~fr.overwrite /\ Name(sp) \in fr.existing_files
    \/ IsFile(fs, sp) /\ Name(sp) \in fr.existing_folders

\* the overwrite argument of the recursive call: not passed, so the default
RecurseOverwrite(fr) == FALSE

TargetPath(fr, sp) == Append(fr.target, Name(sp))

Decision(op, fr, sp) ==
    [op |-> op, item |-> sp, isFile |-> IsFile(fs, sp),
     tgtKind |-> KindOf(fs, TargetPath(fr, sp)), overwrite |-> fr.overwrite,
     target |-> TargetPath(fr, sp)]

Consumed(sp) == [stack EXCEPT ![Len(stack)].content = @ \ {sp}]

Running == stack # <<>> /\ exc = "none"

\* the call or command has returned, or an exception has left it
Ended == pc \in {"done", "raised"}

SkipItem ==
    /\ Running
    /\ \E sp \in top.content :
        /\ SkipRule(top, sp)
        /\ stack' = Consumed(sp)
        /\ last' = Decision("skip", top, sp)
    /\ UNCHANGED <<fs, fs0, pc, exc, argv, loc, copied, attempted, failed, ended>>

\* rule #2, no exception
CopyItem ==
    /\ Running
    /\ \E sp \in top.content :
        /\ ~SkipRule(top, sp)
        /\ IsFile(fs, sp)
        /\ MkdirOk(fs, top.target)
        /\ ~IsDir(fs, TargetPath(top, sp))
        /\ fs' = CopyFile(Mkdir(fs, top.target), sp, TargetPath(top, sp))
        /\ stack' = Consumed(sp)
        /\ last' = Decision("copy", top, sp)
        /\ copied' = copied \cup {TargetPath(top, sp)}
        /\ attempted' = attempted \cup {TargetPath(top, sp)}
    /\ UNCHANGED <<fs0, pc, exc, argv, loc, failed, ended>>

\* an except clause that reports the failure and goes on with the next item
ReraiseSwallowed(sp) ==
    /\ exc' = "none"
    /\ stack' = Consumed(sp)

\* what the except clause of rule #2 does with the exception: re-raises it
Reraise(sp) ==
    /\ exc' = "copy_failed"
    /\ stack' = stack

\* rule #2, target.mkdir raises: the path or an ancestor is a file, or an I/O
\* error strikes after the first k ancestors were made
CopyItemMkdirFails ==
    /\ Running
    /\ \E sp \in top.content :
        /\ ~SkipRule(top, sp)
        /\ IsFile(fs, sp)
        /\ \E k \in 0..Len(top.target) :
            /\ k < Len(top.target) \/ ~MkdirOk(fs, top.target)
            /\ MkdirOk(fs, Prefix(top.target, k))
            /\ ~MkdirOk(fs, top.target) => k = 0
            /\ fs' = MkdirUpTo(fs, top.target, k)
        /\ Reraise(sp)
        /\ last' = Decision("fail", top, sp)
        /\ attempted' = attempted \cup {TargetPath(top, sp)}
        /\ failed' = TRUE
    /\ UNCHANGED <<fs0, pc, argv, loc, copied, ended>>

\* rule #2, shutil.copyfile raises: before the destination is opened (it is
\* left as it was) or after (it is left truncated or half written)
CopyItemCopyFails ==
    /\ Running
    /\ \E sp \in top.content :
        /\ ~SkipRule(top, sp)
        /\ IsFile(fs, sp)
        /\ MkdirOk(fs, top.target)
        /\ \E opened \in BOOLEAN :
            /\ IsDir(fs, TargetPath(top, sp)) => ~opened
            /\ fs' = IF opened THEN PartialFile(Mkdir(fs, top.target), TargetPath(top, sp))
                     ELSE Mkdir(fs, top.target)
        /\ Reraise(sp)
        /\ last' = Decision("fail", top, sp)
        /\ attempted' = attempted \cup {TargetPath(top, sp)}
        /\ failed' = TRUE
    /\ UNCHANGED <<fs0, pc, argv, loc, copied, ended>>

\* rule #3 making the target subdirectory before it recurses
RecurseItemEager ==
    /\ Running
    /\ \E sp \in top.content :
        /\ ~SkipRule(top, sp)
        /\ ~IsFile(fs, sp)
        /\ fs' = IF MkdirOk(fs, TargetPath(top, sp)) THEN Mkdir(fs, TargetPath(top, sp)) ELSE fs
        /\ stack' = Append(Consumed(sp), Frame(sp, TargetPath(top, sp), RecurseOverwrite(top)))
        /\ last' = Decision("recurse", top, sp)
    /\ UNCHANGED <<fs0, pc, exc, argv, loc, copied, attempted, failed, ended>>

\* rule #3: the recursive call, entered at once
RecurseItem ==
    /\ Running
    /\ \E sp \in top.content :
        /\ ~SkipRule(top, sp)
        /\ ~IsFile(fs, sp)
        /\ stack' = Append(Consumed(sp), Frame(sp, TargetPath(top, sp), RecurseOverwrite(top)))
        /\ last' = Decision("recurse", top, sp)
    /\ UNCHANGED <<fs, fs0, pc, exc, argv, loc, copied, attempted, failed, ended>>

\* the for loop is exhausted: the call returns to its caller
ReturnFrame ==
    /\ Running
    /\ top.content = {}
    /\ stack' = SubSeq(stack, 1, Len(stack) - 1)
    /\ UNCHANGED <<fs, fs0, pc, exc, argv, loc, last, copied, attempted, failed, ended>>

\* an exception in flight leaves a frame of _sync_dirs: no frame handles it
Unwind ==
    /\ stack # <<>>
    /\ exc # "none"
    /\ stack' = SubSeq(stack, 1, Len(stack) - 1)
    /\ UNCHANGED <<fs, fs0, pc, exc, argv, loc, last, copied, attempted, failed, ended>>

SyncStep ==
    \/ SkipItem
    \/ CopyItem
    \/ CopyItemMkdirFails
    \/ CopyItemCopyFails
    \/ RecurseItem
    \/ ReturnFrame
    \/ Unwind

(* ----------------------- a call _sync_dirs(S, T, overwrite) ------------ *)

NoDecision ==
    [op |-> "none", item |-> <<>>, isFile |-> FALSE, tgtKind |-> "none",
     overwrite |-> FALSE, target |-> <<>>]

NoLocals ==
    [files |-> <<>>, dirs |-> <<>>, todo |-> <<>>, tests_kind |-> "none", config_kind |-> "none"]

SourceTrees ==
    {Absent, SingleFile(SrcRoot, "src")} \cup {Graft(SrcRoot, t, "src") : t \in Trees(Names, MaxSrcEntries)}

TargetTrees ==
    {Absent, SingleFile(TgtRoot, "old")} \cup {Graft(TgtRoot, t, "old") : t \in Trees(Names, MaxTgtEntries)}

SyncArgs(ow) == [cmd |-> "sync", overwrite |-> ow, skip_config |-> FALSE, yes |-> FALSE]

Init ==
    /\ \E s \in SourceTrees, t \in TargetTrees :
        fs = [q \in {<<"src">>} |-> DirNode] @@ s @@ t
    /\ fs0 = fs
    /\ \E ow \in BOOLEAN : argv = SyncArgs(ow)
    /\ stack = <<>>
    /\ pc = "start"
    /\ exc = "none"
    /\ loc = NoLocals
    /\ last = NoDecision
    /\ copied = {}
    /\ attempted = {}
    /\ failed = FALSE
    /\ ended = {}

CallSync ==
    /\ pc = "start"
    /\ stack' = <<Frame(SrcRoot, TgtRoot, argv.overwrite)>>
    /\ pc' = "sync"
    /\ UNCHANGED <<fs, fs0, exc, argv, loc, last, copied, attempted, failed, ended>>

\* the top-level call has returned, or its exception has left it
SyncEnds ==
    /\ pc = "sync"
    /\ stack = <<>>
    /\ pc' = IF exc = "none" THEN "done" ELSE "raised"
    /\ UNCHANGED <<fs, fs0, stack, exc, argv, loc, last, copied, attempted, failed, ended>>

Next ==
    \/ CallSync
    \/ SyncStep
    \/ SyncEnds

Spec == Init /\ [][Next]_vars

(* ------------------- create_pipeline and delete_pipeline --------------- *)

\* names of the entries of the generated and of the pre-existing project trees
CmdNames == {"b.py"}

IsPy(n) == n \in {"b.py", "pipeline.py", "__init__.py"}

\* metadata.source_dir / metadata.package_name
PackageDir == <<"pkg">>

\* package_dir / "pipelines" / <name>: the pipeline's directory, result_path
PipelineDir == <<"pkg", "pipelines", "p">>

\* package_dir.parent / "tests" / "pipelines" / <name>
TestsDir == <<"tests", "p">>

\* project_conf_path / env
ConfEnv == <<"conf", "base">>

ResultTests == Append(PipelineDir, "tests")

ResultConfig == Append(PipelineDir, "config")

\* the four configuration files of a pipeline, in the order delete looks for them
ConfFiles ==
    << Append(ConfEnv, "parameters_p.yml"), ConfEnv \o <<"parameters", "p.yml">>,
       Append(ConfEnv, "catalog_p.yml"), ConfEnv \o <<"catalog", "p.yml">> >>

Raise(tag) ==
    /\ exc' = tag
    /\ pc' = "raised"

\* package_dir.glob("**/<name>/__init__.py")
GlobInit(f) ==
    {q \in DOMAIN f : IsPrefix(PackageDir, q) /\ Len(q) >= Len(PackageDir) + 2
                      /\ Name(q) = "__init__.py" /\ q[Len(q) - 1] = "p"}

\* create_pipeline, the environment check
CreateCheckEnv ==
    /\ pc = "create_env"
    /\ IF ~argv.skip_config /\ ~Exists(fs, ConfEnv)
         THEN Raise("env_missing")
         ELSE pc' = "create_unique" /\ exc' = exc
    /\ UNCHANGED <<fs, fs0, stack, argv, loc, last, copied, attempted, failed, ended>>

\* create_pipeline, the check that the pipeline name is unique
CreateCheckUnique ==
    /\ pc = "create_unique"
    /\ IF GlobInit(fs) # {}
         THEN Raise("already_exists")
         ELSE pc' = "create_template" /\ exc' = exc
    /\ UNCHANGED <<fs, fs0, stack, argv, loc, last, copied, attempted, failed, ended>>

\* what the template engine may materialise as result_path/tests and /config
ScratchTrees(root) ==
    {Absent, SingleFile(root, "gen")}
        \cup {Graft(root, t, "gen") : t \in Trees(CmdNames, MaxScratchEntries)}

Generated(ts, cs) ==
    [q \in {Prefix(PipelineDir, k) : k \in 1..Len(PipelineDir)} |-> DirNode]
        @@ [q \in {Append(PipelineDir, "__init__.py"), Append(PipelineDir, "pipeline.py")}
               |-> FileNode(<<"gen", Rel(PipelineDir, q)>>)]
        @@ ts @@ cs

\* _create_pipeline: cookiecutter(..., overwrite_if_exists=True) writes the
\* generated tree over what is there, or fails; the generated tree holds no
\* __pycache__, so _clean_pycache finds nothing to remove
CreateTemplate ==
    /\ pc = "create_template"
    /\ \/ \E ts \in ScratchTrees(ResultTests), cs \in ScratchTrees(ResultConfig) :
            /\ fs' = Generated(ts, cs) @@ fs
            /\ loc' = [loc EXCEPT !.tests_kind = KindOf(ts, ResultTests),
                                  !.config_kind = KindOf(cs, ResultConfig)]
            /\ pc' = "copy_tests"
            /\ exc' = exc
       \/ /\ Raise("template_failed")
          /\ \E k \in {0, Len(PipelineDir)} : fs' = MkdirUpTo(fs, PipelineDir, k)
          /\ loc' = loc
    /\ UNCHANGED <<fs0, stack, argv, last, copied, attempted, failed, ended>>

\* _copy_pipeline_tests: the call of _sync_dirs inside try
CopyPipelineTests ==
    /\ pc = "copy_tests"
    /\ stack' = <<Frame(ResultTests, TestsDir, FALSE)>>
    /\ pc' = "tests_sync"
    /\ UNCHANGED <<fs, fs0, exc, argv, loc, last, copied, attempted, failed, ended>>

\* a cleanup that runs only when the merge returned: no finally clause
CleanupOnSuccess(who, scratch, after) ==
    /\ stack = <<>>
    /\ IF exc # "none"
         THEN fs' = fs /\ exc' = exc /\ pc' = "raised"
         ELSE IF IsDir(fs, scratch)
         THEN fs' = Remove(fs, scratch) /\ exc' = exc /\ pc' = after
         ELSE fs' = fs /\ Raise("rmtree_failed")
    /\ ended' = ended \cup {who}
    /\ UNCHANGED <<fs0, stack, argv, loc, last, copied, attempted, failed>>

\* finally: shutil.rmtree(scratch), whether _sync_dirs returned or raised; rmtree
\* of a missing path or of a regular file raises and removes nothing
Finally(who, scratch, after) ==
    /\ stack = <<>>
    /\ IF IsDir(fs, scratch)
         THEN /\ fs' = Remove(fs, scratch)
              /\ exc' = exc
              /\ pc' = IF exc = "none" THEN after ELSE "raised"
         ELSE /\ fs' = fs
              /\ Raise("rmtree_failed")
    /\ ended' = ended \cup {who}
    /\ UNCHANGED <<fs0, stack, argv, loc, last, copied, attempted, failed>>

TestsFinally ==
    /\ pc = "tests_sync"
    /\ Finally("tests", ResultTests, "copy_configs")

\* _copy_pipeline_configs: the call of _sync_dirs inside try, unless skip_config
CopyPipelineConfigs ==
    /\ pc = "copy_configs"
    /\ stack' = IF argv.skip_config THEN <<>> ELSE <<Frame(ResultConfig, ConfEnv, FALSE)>>
    /\ pc' = "configs_sync"
    /\ UNCHANGED <<fs, fs0, exc, argv, loc, last, copied, attempted, failed, ended>>

\* _copy_pipeline_configs with rmtree after the try block instead of in finally
ConfigsCleanupOnSuccess ==
    /\ pc = "configs_sync"
    /\ CleanupOnSuccess("configs", ResultConfig, "done")

ConfigsFinally ==
    /\ pc = "configs_sync"
    /\ Finally("configs", ResultConfig, "done")

\* delete_pipeline, the environment check
DeleteCheckEnv ==
    /\ pc = "delete_env"
    /\ IF ~Exists(fs, ConfEnv)
         THEN Raise("env_missing")
         ELSE pc' = "delete_collect" /\ exc' = exc
    /\ UNCHANGED <<fs, fs0, stack, argv, loc, last, copied, attempted, failed, ended>>

\* delete_pipeline: files_to_delete and dirs_to_delete
DeleteCollect ==
    /\ pc = "delete_collect"
    /\ loc' = [loc EXCEPT !.files = SelectSeq(ConfFiles, LAMBDA q : IsFile(fs, q)),
                          !.dirs = SelectSeq(<<PipelineDir, TestsDir>>, LAMBDA q : IsDir(fs, q))]
    /\ pc' = "delete_children"
    /\ UNCHANGED <<fs, fs0, stack, exc, argv, last, copied, attempted, failed, ended>>

\* for subdir in d.glob("**/*/"): for py_file in subdir.glob("**/*.py")
HasChildPipeline(f, d) ==
    \E q \in Below(f, d) : IsDir(f, q) /\ \E r \in Below(f, q) : IsPy(Name(r))

Range(seq) == {seq[i] : i \in 1..Len(seq)}

\* delete_pipeline, the child pipeline check
DeleteCheckChildren ==
    /\ pc = "delete_children"
    /\ IF \E d \in Range(loc.dirs) : HasChildPipeline(fs, d)
         THEN Raise("child_pipeline")
         ELSE pc' = "delete_found" /\ exc' = exc
    /\ UNCHANGED <<fs, fs0, stack, argv, loc, last, copied, attempted, failed, ended>>

\* delete_pipeline, the check that there is something to delete
DeleteCheckFound ==
    /\ pc = "delete_found"
    /\ IF loc.files = <<>> /\ loc.dirs = <<>>
         THEN Raise("not_found")
         ELSE pc' = "delete_confirm" /\ exc' = exc
    /\ UNCHANGED <<fs, fs0, stack, argv, loc, last, copied, attempted, failed, ended>>

\* a confirmation asked after the first artifact is gone
DeleteConfirmLate ==
    /\ pc = "delete_confirm"
    /\ \E answer \in BOOLEAN :
        IF argv.yes \/ answer
          THEN /\ loc' = [loc EXCEPT !.todo = loc.files \o loc.dirs]
               /\ pc' = "delete_artifacts"
               /\ exc' = exc
               /\ fs' = fs
          ELSE /\ Raise("aborted")
               /\ loc' = loc
               /\ fs' = Remove(fs, Head(loc.files \o loc.dirs))
    /\ UNCHANGED <<fs0, stack, argv, last, copied, attempted, failed, ended>>

\* delete_pipeline: --yes, or the answer to click.confirm
DeleteConfirm ==
    /\ pc = "delete_confirm"
    /\ \E answer \in BOOLEAN :
        IF argv.yes \/ answer
          THEN /\ loc' = [loc EXCEPT !.todo = loc.files \o loc.dirs]
               /\ pc' = "delete_artifacts"
               /\ exc' = exc
          ELSE /\ Raise("aborted")
               /\ loc' = loc
    /\ UNCHANGED <<fs, fs0, stack, argv, last, copied, attempted, failed, ended>>

\* _delete_artifacts, one artifact: rmtree or unlink, or a failure that is
\* raised as KedroCliError and ends the loop
DeleteArtifact ==
    /\ pc = "delete_artifacts"
    /\ loc.todo # <<>>
    /\ \/ /\ fs' = Remove(fs, Head(loc.todo))
          /\ loc' = [loc EXCEPT !.todo = Tail(loc.todo)]
          /\ UNCHANGED <<pc, exc>>
       \/ /\ Raise("delete_failed")
          /\ UNCHANGED <<fs, loc>>
    /\ UNCHANGED <<fs0, stack, argv, last, copied, attempted, failed, ended>>

DeleteDone ==
    /\ pc = "delete_artifacts"
    /\ loc.todo = <<>>
    /\ pc' = "done"
    /\ UNCHANGED <<fs, fs0, stack, exc, argv, loc, last, copied, attempted, failed, ended>>

\* the project before the command: the package with or without the pipeline
PipelineFiles(names) == [q \in {PipelineDir \o n : n \in names} |-> FileNode(<<"old", Rel(PipelineDir, q)>>)]

PackageVariants ==
    { Absent,
      Graft(PipelineDir, EmptyTree, "old") @@ PipelineFiles({<<"__init__.py">>, <<"pipeline.py">>}),
      Graft(PipelineDir, [q \in {<<"child">>} |-> "dir"], "old")
          @@ PipelineFiles({<<"__init__.py">>, <<"child", "pipeline.py">>}),
      Graft(PipelineDir, [q \in {<<"child">>} |-> "dir"], "old")
          @@ PipelineFiles({<<"child", "__init__.py">>}) }

TestsVariants ==
    {Absent, SingleFile(TestsDir, "old")}
        \cup {Graft(TestsDir, t, "old") : t \in Trees(CmdNames, MaxProjEntries)}

ConfParents(S) == {Prefix(q, Len(q) - 1) : q \in S} \ {ConfEnv}

ConfVariants ==
    {Absent}
        \cup {Graft(ConfEnv, t, "old") : t \in Trees(CmdNames, MaxProjEntries)}
        \cup { [q \in ConfParents(S) |-> DirNode] @@ [q \in S |-> FileNode(<<"old", Rel(ConfEnv, q)>>)]
                   @@ Graft(ConfEnv, EmptyTree, "old") : S \in SUBSET Range(ConfFiles) }

CmdArgs == 
    {[cmd |-> "create", overwrite |-> FALSE, skip_config |-> b, yes |-> FALSE] : b \in BOOLEAN}
        \cup {[cmd |-> "delete", overwrite |-> FALSE, skip_config |-> FALSE, yes |-> b] : b \in BOOLEAN}

InitCmd ==
    /\ \E pk \in PackageVariants, ts \in TestsVariants, cf \in ConfVariants :
        fs = [q \in {<<"pkg">>, <<"pkg", "pipelines">>, <<"tests">>, <<"conf">>} |-> DirNode]
                @@ pk @@ ts @@ cf
    /\ fs0 = fs
    /\ argv \in CmdArgs
    /\ stack = <<>>
    /\ pc = IF argv.cmd = "create" THEN "create_env" ELSE "delete_env"
    /\ exc = "none"
    /\ loc = NoLocals
    /\ last = NoDecision
    /\ copied = {}
    /\ attempted = {}
    /\ failed = FALSE
    /\ ended = {}

NextCmd ==
    \/ CreateCheckEnv
    \/ CreateCheckUnique
    \/ CreateTemplate
    \/ CopyPipelineTests
    \/ TestsFinally
    \/ CopyPipelineConfigs
    \/ ConfigsFinally
    \/ SyncStep
    \/ DeleteCheckEnv
    \/ DeleteCollect
    \/ DeleteCheckChildren
    \/ DeleteCheckFound
    \/ DeleteConfirm
    \/ DeleteArtifact
    \/ DeleteDone

SpecCmd == InitCmd /\ [][NextCmd]_vars

(* =============== claims on the callers and on the commands ============= *)

\* C7: once _copy_pipeline_tests (resp. _copy_pipeline_configs) has returned or
\* its exception has left it, the scratch directory that was generated as
\* result_path/tests (resp. result_path/config) does not exist, whether the merge
\* succeeded, failed partway or was skipped.
C7_ScratchRemoved ==
    /\ ("tests" \in ended /\ loc.tests_kind = "dir") => ~Exists(fs, ResultTests)
    /\ ("configs" \in ended /\ loc.config_kind = "dir") => ~Exists(fs, ResultConfig)

\* C7 witness: the config merge failed while copying and _copy_pipeline_configs
\* has been left by the exception.
C7_Witness ==
    /\ pc = "raised"
    /\ exc = "copy_failed"
    /\ ended = {"tests", "configs"}
    /\ loc.config_kind = "dir"
    /\ ~argv.skip_config

ValidationErrors == {"env_missing", "already_exists", "child_pipeline", "not_found", "aborted"}

\* C9: when create_pipeline or delete_pipeline ends with a validation or
\* consistency error (environment missing, pipeline already exists, child
\* pipeline, nothing found, confirmation declined) the filesystem is as it was
\* before the command.
C9_ValidationBeforeMutation ==
    (pc = "raised" /\ exc \in ValidationErrors) => fs = fs0

\* C9 witness: delete_pipeline found artifacts to delete and the confirmation
\* was declined.
C9_Witness ==
    /\ pc = "raised"
    /\ exc = "aborted"
    /\ loc.dirs # <<>>
    /\ loc.files # <<>>

\* C10 (as claimed): once the template was instantiated with a tests/ and a
\* config/ directory, neither remains under the pipeline directory when
\* create_pipeline ends, on success or on a failure of either merge.
C10_NoScratchLeftOnAnyExit ==
    (Ended /\ loc.tests_kind = "dir" /\ loc.config_kind = "dir") =>
        (~Exists(fs, ResultTests) /\ ~Exists(fs, ResultConfig))

(* ======================== claims on _sync_dirs ========================= *)

\* the files of the source as it was when the call started
SourceFiles == {sp \in DOMAIN fs0 : IsPrefix(SrcRoot, sp) /\ IsFile(fs0, sp)}

\* where the merge puts the source entry sp
TargetOf(sp) ==
    IF IsFile(fs0, SrcRoot) THEN Append(TgtRoot, Name(SrcRoot)) ELSE TgtRoot \o Rel(SrcRoot, sp)

SameAsSource(sp) == IsFile(fs, TargetOf(sp)) /\ fs[TargetOf(sp)].data = fs0[sp].data

\* what lies below root, as a function of relative paths
SubtreeRel(f, root) ==
    [r \in {Rel(root, q) : q \in Below(f, root)} |-> f[root \o r]]

EmptyOrMissingTarget == ~Exists(fs0, TgtRoot) \/ (IsDir(fs0, TgtRoot) /\ Below(fs0, TgtRoot) = {})

HoldsFile(f, d) == \E q \in Below(f, d) : IsFile(f, q)

\* C1: with overwrite=False every entry that existed under the target before the
\* call is still there, with its kind and content, in every state of the call
\* (while it runs, after it returned, after it raised).
C1_NoOverwriteKeepsTarget ==
    ~argv.overwrite =>
        \A p \in DOMAIN fs0 : IsPrefix(TgtRoot, p) => (p \in DOMAIN fs /\ fs[p] = fs0[p])

\* C1 witness: a call without overwrite ended after copying something although a
\* source file collided with a file of the target.
C1_Witness ==
    /\ Ended
    /\ ~argv.overwrite
    /\ copied # {}
    /\ \E sp \in SourceFiles : IsFile(fs0, TargetOf(sp))

\* C2 (as claimed): after a completed call with overwrite=True every source file
\* whose relative path was a file of the target, at any depth, has replaced it.
C2_OverwriteReplacesAtAnyDepth ==
    (pc = "done" /\ argv.overwrite) =>
        \A sp \in SourceFiles : IsFile(fs0, TargetOf(sp)) => SameAsSource(sp)

Decided == last.op \in {"skip", "copy", "fail", "recurse"}

\* C4 (as claimed): an item is skipped iff it is a file colliding with a file
\* while overwrite is false, or a file colliding with a directory; a source
\* directory is never skipped and always recurses.
C4_SkipOnlyFiles ==
    Decided =>
        /\ (last.op = "skip") <=>
              \/ last.isFile /\ last.tgtKind = "file" /\ ~last.overwrite
              \/ last.isFile /\ last.tgtKind = "dir"
        /\ ~last.isFile => last.op = "recurse"

\* C4 (amended): an item, file or directory, is skipped iff its name is a file of
\* the target while overwrite is false, or it is a file and its name is a
\* directory of the target; a source directory that is not skipped recurses.
C4_SkipRuleAsGrouped ==
    Decided =>
        /\ (last.op = "skip") <=>
              \/ last.tgtKind = "file" /\ ~last.overwrite
              \/ last.isFile /\ last.tgtKind = "dir"
        /\ (~last.isFile /\ last.op # "skip") => last.op = "recurse"

\* C4 witness: a source directory was skipped.
C4_Witness == last.op = "skip" /\ ~last.isFile

\* the directories present in both the source and the target before the call
SharedDirs == {n \in Names : IsDir(fs0, Append(SrcRoot, n)) /\ IsDir(fs0, Append(TgtRoot, n))}

KeptBelow(d) == \A p \in Below(fs0, d) : p \in DOMAIN fs /\ fs[p] = fs0[p]

\* C5 (as claimed): a directory d of both trees is merged: T/d keeps every entry
\* it had and gains every file of S/d whose relative path did not exist in T/d.
C5_SharedDirMerged ==
    (pc = "done" /\ IsDir(fs0, SrcRoot)) =>
        \A n \in SharedDirs :
            /\ KeptBelow(Append(TgtRoot, n))
            /\ \A sp \in SourceFiles :
                (IsPrefix(Append(SrcRoot, n), sp) /\ ~Exists(fs0, TargetOf(sp))) => SameAsSource(sp)

\* a proper ancestor of the target path of sp was a file of the target
BlockedByFile(sp) ==
    \E k \in 1..(Len(TargetOf(sp)) - 1) : IsFile(fs0, Prefix(TargetOf(sp), k))

\* C5 (amended): T/d keeps every entry it had and gains every file of S/d whose
\* relative path did not exist in T/d and none of whose parent directories
\* collides with a file of T/d.
C5_SharedDirMergedUnlessBlocked ==
    (pc = "done" /\ IsDir(fs0, SrcRoot)) =>
        \A n \in SharedDirs :
            /\ KeptBelow(Append(TgtRoot, n))
            /\ \A sp \in SourceFiles :
                (/\ IsPrefix(Append(SrcRoot, n), sp)
                 /\ ~Exists(fs0, TargetOf(sp))
                 /\ ~BlockedByFile(sp)) => SameAsSource(sp)

\* C5 witness: the merge completed, a shared directory that held an entry gained
\* a file of the source.
C5_Witness ==
    /\ pc = "done"
    /\ \E n \in SharedDirs :
        /\ Below(fs0, Append(TgtRoot, n)) # {}
        /\ \E sp \in SourceFiles :
            /\ IsPrefix(Append(SrcRoot, n), sp)
            /\ ~Exists(fs0, TargetOf(sp))
            /\ SameAsSource(sp)

\* C6: once an item failed, nothing is written any more (no later item of the
\* frame or of an ancestor frame is copied), the exception leaves the top-level
\* call, and every file copied before is still in the target with its content.
C6_FailureAbortsNoRollback ==
    /\ [][failed => fs' = fs]_vars
    /\ [](failed => (exc # "none" /\ pc \in {"sync", "raised"}))
    /\ [](\A p \in copied : \E sp \in SourceFiles : TargetOf(sp) = p /\ SameAsSource(sp))

\* C6 witness: an item failed two frames deep, after a file was copied, while an
\* ancestor frame still had items to process.
C6_Witness ==
    /\ failed
    /\ Len(stack) >= 2
    /\ copied # {}
    /\ stack[1].content # {}

====
